---- MODULE Spec2Model ----
(***************************************************************************)
(* A model of the .proto parser of src/src/parser.rs.                      *)
(*                                                                         *)
(* The parser is a set of nom 3 combinators over a byte slice.  Here the   *)
(* input is a sequence of one-character strings and a parser is an         *)
(* operator P(s, i): it reads s from position i (1-based) and answers      *)
(*   [st |-> "Done", pos |-> next position, val |-> parsed value]          *)
(*   [st |-> "Error"]       the alternative does not match                 *)
(*   [st |-> "Incomplete"]  the input ended inside a token                 *)
(*   [st |-> "Panic"]       an expect() of the code aborted the call       *)
(***************************************************************************)
EXTENDS Integers, Sequences, FiniteSets, TLC

VARIABLES doc, input, pc, out

vars == <<doc, input, pc, out>>

\* ------------------------------------------------------------- results

Done(p, v) == [st |-> "Done", pos |-> p, val |-> v]

Error == [st |-> "Error", pos |-> 0, val |-> <<>>]

Incomplete == [st |-> "Incomplete", pos |-> 0, val |-> <<>>]

Panic == [st |-> "Panic", pos |-> 0, val |-> <<>>]

None == [some |-> FALSE, v |-> <<>>]

Some(x) == [some |-> TRUE, v |-> x]

\* the None of an Option<bool>
NoBool == [some |-> FALSE, v |-> FALSE]

\* ---------------------------------------------------- character classes

Lower == {"a","b","c","d","e","f","g","h","i","j","k","l","m",
          "n","o","p","q","r","s","t","u","v","w","x","y","z"}

Upper == {"A","B","C","D","E","F","G","H","I","J","K","L","M",
          "N","O","P","Q","R","S","T","U","V","W","X","Y","Z"}

DecDigit == {"0","1","2","3","4","5","6","7","8","9"}

HexDigit == DecDigit \cup {"a","b","c","d","e","f","A","B","C","D","E","F"}

\* is_word: letters, digits, '_' and '.'
WordChar == Lower \cup Upper \cup DecDigit \cup {"_", "."}

\* nom's multispace: space, tab, carriage return, line feed
Multispace == {" ", "\t", "\r", "\n"}

\* str::trim strips every White_Space character; form feed is one that
\* multispace does not take
TrimSpace == Multispace \cup {"\f"}

DigitVal(c) ==
  CASE c = "0" -> 0 [] c = "1" -> 1 [] c = "2" -> 2 [] c = "3" -> 3
    [] c = "4" -> 4 [] c = "5" -> 5 [] c = "6" -> 6 [] c = "7" -> 7
    [] c = "8" -> 8 [] c = "9" -> 9
    [] c \in {"a", "A"} -> 10 [] c \in {"b", "B"} -> 11
    [] c \in {"c", "C"} -> 12 [] c \in {"d", "D"} -> 13
    [] c \in {"e", "E"} -> 14 [] c \in {"f", "F"} -> 15

\* i32::MAX
I32Max == 2147483647

\* a wrapping addition in place of the saturating one
WrappingAdd1(x) == IF x >= I32Max THEN -I32Max - 1 ELSE x + 1

\* i32::saturating_add(x, 1) for x >= 0
SaturatingAdd1(x) == IF x >= I32Max THEN I32Max ELSE x + 1

\* ------------------------------------------------------ nom primitives

Rest(s, i) == SubSeq(s, i, Len(s))

\* tag!(t): compares the first min(len) bytes; a mismatch is an Error, a
\* matching but too short input is Incomplete
tag(s, i, t) ==
  LET n == Len(t)
      rem == Len(s) - i + 1
      m == IF rem < n THEN rem ELSE n
  IN  IF \E k \in 1..m : s[i + k - 1] # t[k] THEN Error
      ELSE IF m < n THEN Incomplete
      ELSE Done(i + n, t)

RECURSIVE ScanWhile(_, _, _)
\* the first position at or after i whose character is not in class C
ScanWhile(s, i, C) ==
  IF i > Len(s) \/ s[i] \notin C THEN i ELSE ScanWhile(s, i + 1, C)

\* take_while!(cond): the longest run, possibly empty; never fails
take_while(s, i, C) ==
  LET j == ScanWhile(s, i, C) IN Done(j, SubSeq(s, i, j - 1))

\* nom::digit, hex_digit, multispace: Incomplete on empty input, Error when
\* the first character is not of the class, else the longest run
class_run(s, i, C) ==
  IF i > Len(s) THEN Incomplete
  ELSE IF s[i] \notin C THEN Error
  ELSE LET j == ScanWhile(s, i, C) IN Done(j, SubSeq(s, i, j - 1))

RECURSIVE FindSub(_, _, _)
\* the first position at or after i where t occurs in s, 0 when none
FindSub(s, i, t) ==
  IF i + Len(t) - 1 > Len(s) THEN 0
  ELSE IF \A k \in 1..Len(t) : s[i + k - 1] = t[k] THEN i
  ELSE FindSub(s, i + 1, t)

\* take_until_and_consume!(t)
take_until_and_consume(s, i, t) ==
  IF Len(t) > Len(s) - i + 1 THEN Incomplete
  ELSE LET j == FindSub(s, i, t)
       IN  IF j = 0 THEN Error ELSE Done(j + Len(t), SubSeq(s, i, j - 1))

\* take_until!(t)
take_until(s, i, t) ==
  IF Len(t) > Len(s) - i + 1 THEN Incomplete
  ELSE LET j == FindSub(s, i, t)
       IN  IF j = 0 THEN Error ELSE Done(j, SubSeq(s, i, j - 1))

RECURSIVE ScanUntil(_, _, _)
\* the first position at or after i whose character is in class C
ScanUntil(s, i, C) ==
  IF i > Len(s) \/ s[i] \in C THEN i ELSE ScanUntil(s, i + 1, C)

\* is_not!(C): the run up to the first character of C or the end of the
\* input; an Error when the input starts with a character of C
is_not(s, i, C) ==
  LET j == ScanUntil(s, i, C)
  IN  IF j = i /\ i <= Len(s) THEN Error ELSE Done(j, SubSeq(s, i, j - 1))

\* many0!(tag!(";")) and the other loops below follow nom's many0!: stop with
\* Done at the end of the input or on an Error of the element, hand on an
\* Incomplete, and fail when the element matched without consuming

RECURSIVE Call(_, _, _)
\* Call(p, s, i) is the parser named p of parser.rs applied to s at position
\* i.  A parser invokes another one by its name, as the named! functions of
\* the code call each other; the table of names is defined below, after
\* file_descriptor.

\* ------------------------------------------------- lexical primitives

\* word, word_ref: take_while!(is_word), then from_utf8 (the identity on the
\* ASCII input modelled here); matches the empty word too
word(s, i) == take_while(s, i, WordChar)

RECURSIVE ParseRadix(_, _, _, _)
\* i32::from_str / i32::from_str_radix on a digit run: the value, or -1 when
\* it does not fit in an i32 (checked before multiplying)
ParseRadix(ds, k, acc, radix) ==
  IF k > Len(ds) THEN acc
  ELSE IF acc > (I32Max - DigitVal(ds[k])) \div radix THEN -1
  ELSE ParseRadix(ds, k + 1, acc * radix + DigitVal(ds[k]), radix)

\* integer: map_res!(digit, from_str): a conversion failure is an Error
integer(s, i) ==
  LET r == class_run(s, i, DecDigit)
  IN  IF r.st # "Done" THEN r
      ELSE LET n == ParseRadix(r.val, 1, 0, 10)
           IN  IF n < 0 THEN Error ELSE Done(r.pos, n)

hex_integer(s, i) ==
  LET t == tag(s, i, <<"0","x">>)
  IN  IF t.st # "Done" THEN t
      ELSE LET r == class_run(s, t.pos, HexDigit)
           IN  IF r.st # "Done" THEN r
               ELSE LET n == ParseRadix(r.val, 1, 0, 16)
                    IN  IF n < 0 THEN Error ELSE Done(r.pos, n)

comment(s, i) ==
  LET t == tag(s, i, <<"/","/">>)
  IN  IF t.st # "Done" THEN t ELSE take_until_and_consume(s, t.pos, <<"\n">>)

block_comment(s, i) ==
  LET t == tag(s, i, <<"/","*">>)
  IN  IF t.st # "Done" THEN t ELSE take_until_and_consume(s, t.pos, <<"*","/">>)

\* word break: alt!(multispace | comment | block_comment); alt! tries the
\* next alternative on an Error only
br(s, i) ==
  LET a == class_run(s, i, Multispace)
  IN  IF a.st # "Error" THEN a
      ELSE LET b == Call("comment", s, i)
           IN  IF b.st # "Error" THEN b ELSE Call("block_comment", s, i)

\* many0!(br)
Many0Br(s, i) ==
  IF i > Len(s) THEN Done(i, <<>>)
  ELSE LET r == Call("br", s, i)
       IN  IF r.st = "Error" THEN Done(i, <<>>)
           ELSE IF r.st # "Done" THEN r
           ELSE IF r.pos = i THEN Error
           ELSE Call("Many0Br", s, r.pos)

\* many1!(br): the first br must match and consume; the rest is the loop of
\* many0! (br never matches without consuming)
Many1Br(s, i) ==
  LET r == Call("br", s, i)
  IN  IF r.st # "Done" THEN r
      ELSE IF r.pos = i THEN Error
      ELSE Call("Many0Br", s, r.pos)

\* many0!(tag!(";"))
Many0Semi(s, i) ==
  IF i > Len(s) THEN Done(i, <<>>)
  ELSE LET r == tag(s, i, <<";">>)
       IN  IF r.st = "Error" THEN Done(i, <<>>)
           ELSE IF r.st # "Done" THEN r
           ELSE Call("Many0Semi", s, r.pos)

\* ------------------------------------------------- file-level statements

syntax(s, i) ==
  LET r1 == tag(s, i, <<"s","y","n","t","a","x">>) IN IF r1.st # "Done" THEN r1 ELSE
  LET r2 == Call("Many0Br", s, r1.pos) IN IF r2.st # "Done" THEN r2 ELSE
  LET r3 == tag(s, r2.pos, <<"=">>) IN IF r3.st # "Done" THEN r3 ELSE
  LET r4 == Call("Many0Br", s, r3.pos) IN IF r4.st # "Done" THEN r4 ELSE
  LET p2 == tag(s, r4.pos, <<"\"","p","r","o","t","o","2","\"">>)
      p3 == tag(s, r4.pos, <<"\"","p","r","o","t","o","3","\"">>)
      r5 == IF p2.st = "Done" THEN Done(p2.pos, "Proto2")
            ELSE IF p2.st # "Error" THEN p2
            ELSE IF p3.st = "Done" THEN Done(p3.pos, "Proto3")
            ELSE p3
  IN IF r5.st # "Done" THEN r5 ELSE
  LET r6 == Call("Many0Br", s, r5.pos) IN IF r6.st # "Done" THEN r6 ELSE
  LET r7 == tag(s, r6.pos, <<";">>) IN IF r7.st # "Done" THEN r7 ELSE
  Done(r7.pos, r5.val)

import(s, i) ==
  LET r1 == tag(s, i, <<"i","m","p","o","r","t">>) IN IF r1.st # "Done" THEN r1 ELSE
  LET r2 == Call("Many1Br", s, r1.pos) IN IF r2.st # "Done" THEN r2 ELSE
  LET r3 == tag(s, r2.pos, <<"\"">>) IN IF r3.st # "Done" THEN r3 ELSE
  LET r4 == take_until(s, r3.pos, <<"\"">>) IN IF r4.st # "Done" THEN r4 ELSE
  LET r5 == tag(s, r4.pos, <<"\"">>) IN IF r5.st # "Done" THEN r5 ELSE
  LET r6 == Call("Many0Br", s, r5.pos) IN IF r6.st # "Done" THEN r6 ELSE
  LET r7 == tag(s, r6.pos, <<";">>) IN IF r7.st # "Done" THEN r7 ELSE
  Done(r7.pos, r4.val)

package(s, i) ==
  LET r1 == tag(s, i, <<"p","a","c","k","a","g","e">>) IN IF r1.st # "Done" THEN r1 ELSE
  LET r2 == Call("Many1Br", s, r1.pos) IN IF r2.st # "Done" THEN r2 ELSE
  LET r3 == Call("word", s, r2.pos) IN
  LET r4 == Call("Many0Br", s, r3.pos) IN IF r4.st # "Done" THEN r4 ELSE
  LET r5 == tag(s, r4.pos, <<";">>) IN IF r5.st # "Done" THEN r5 ELSE
  Done(r5.pos, r3.val)

\* ------------------------------------------------------------ reserved

\* a Range<i32>
Range(a, b) == [start |-> a, end |-> b]

num_range(s, i) ==
  LET r1 == Call("integer", s, i) IN IF r1.st # "Done" THEN r1 ELSE
  LET r2 == Call("Many1Br", s, r1.pos) IN IF r2.st # "Done" THEN r2 ELSE
  LET r3 == tag(s, r2.pos, <<"t","o">>) IN IF r3.st # "Done" THEN r3 ELSE
  LET r4 == Call("Many1Br", s, r3.pos) IN IF r4.st # "Done" THEN r4 ELSE
  LET r5 == Call("integer", s, r4.pos) IN IF r5.st # "Done" THEN r5 ELSE
  Done(r5.pos, Range(r1.val, SaturatingAdd1(r5.val)))

\* alt!(num_range | integer => i..i.saturating_add(1))
reserved_entry(s, i) ==
  LET a == Call("num_range", s, i)
  IN  IF a.st # "Error" THEN a
      ELSE LET b == Call("integer", s, i)
           IN  IF b.st # "Done" THEN b
               ELSE Done(b.pos, Range(b.val, SaturatingAdd1(b.val)))

\* the separator of the list: many0!(br) >> tag!(",") >> many0!(br)
reserved_sep(s, i) ==
  LET r1 == Call("Many0Br", s, i) IN IF r1.st # "Done" THEN r1 ELSE
  LET r2 == tag(s, r1.pos, <<",">>) IN IF r2.st # "Done" THEN r2 ELSE
  Call("Many0Br", s, r2.pos)

RECURSIVE ReservedListLoop(_, _, _)
\* the loop of separated_list!: a separator, then an element; anything but
\* a consuming Done of either ends the list where it stood
ReservedListLoop(s, i, acc) ==
  LET sep == Call("reserved_sep", s, i)
  IN  IF sep.st # "Done" \/ sep.pos = i THEN Done(i, acc)
      ELSE LET e == Call("reserved_entry", s, sep.pos)
           IN  IF e.st # "Done" \/ e.pos = sep.pos THEN Done(i, acc)
               ELSE ReservedListLoop(s, e.pos, Append(acc, e.val))

\* separated_list!(sep, entry): no first element is the empty list
ReservedList(s, i) ==
  LET e == Call("reserved_entry", s, i)
  IN  IF e.st = "Error" THEN Done(i, <<>>)
      ELSE IF e.st # "Done" THEN e
      ELSE IF e.pos = i THEN Error
      ELSE ReservedListLoop(s, e.pos, <<e.val>>)

reserved_nums(s, i) ==
  LET r1 == tag(s, i, <<"r","e","s","e","r","v","e","d">>) IN IF r1.st # "Done" THEN r1 ELSE
  LET r2 == Call("Many1Br", s, r1.pos) IN IF r2.st # "Done" THEN r2 ELSE
  LET r3 == Call("ReservedList", s, r2.pos) IN IF r3.st # "Done" THEN r3 ELSE
  LET r4 == Call("Many0Br", s, r3.pos) IN IF r4.st # "Done" THEN r4 ELSE
  LET r5 == tag(s, r4.pos, <<";">>) IN IF r5.st # "Done" THEN r5 ELSE
  Done(r5.pos, r3.val)

\* many0!(alt!(br | tag!(",")))
Many0BrOrComma(s, i) ==
  IF i > Len(s) THEN Done(i, <<>>)
  ELSE LET a == Call("br", s, i)
           r == IF a.st # "Error" THEN a ELSE tag(s, i, <<",">>)
       IN  IF r.st = "Error" THEN Done(i, <<>>)
           ELSE IF r.st # "Done" THEN r
           ELSE IF r.pos = i THEN Error
           ELSE Call("Many0BrOrComma", s, r.pos)

\* one quoted name of reserved_names, with the separators after it
reserved_name(s, i) ==
  LET r1 == tag(s, i, <<"\"">>) IN IF r1.st # "Done" THEN r1 ELSE
  LET r2 == Call("word", s, r1.pos) IN
  LET r3 == tag(s, r2.pos, <<"\"">>) IN IF r3.st # "Done" THEN r3 ELSE
  LET r4 == Call("Many0BrOrComma", s, r3.pos) IN IF r4.st # "Done" THEN r4 ELSE
  Done(r4.pos, r2.val)

RECURSIVE ReservedNamesLoop(_, _, _)
\* the loop of many1!: ends on an Error or at the end of the input
ReservedNamesLoop(s, i, acc) ==
  IF i > Len(s) THEN Done(i, acc)
  ELSE LET r == Call("reserved_name", s, i)
       IN  IF r.st = "Error" THEN Done(i, acc)
           ELSE IF r.st # "Done" THEN r
           ELSE IF r.pos = i THEN Done(i, acc)
           ELSE ReservedNamesLoop(s, r.pos, Append(acc, r.val))

reserved_names(s, i) ==
  LET r1 == tag(s, i, <<"r","e","s","e","r","v","e","d">>) IN IF r1.st # "Done" THEN r1 ELSE
  LET r2 == Call("Many1Br", s, r1.pos) IN IF r2.st # "Done" THEN r2 ELSE
  LET f == Call("reserved_name", s, r2.pos) IN IF f.st # "Done" THEN f ELSE
  LET r3 == ReservedNamesLoop(s, f.pos, <<f.val>>)
  IN IF r3.st # "Done" THEN r3 ELSE
  LET r4 == Call("Many0Br", s, r3.pos) IN IF r4.st # "Done" THEN r4 ELSE
  LET r5 == tag(s, r4.pos, <<";">>) IN IF r5.st # "Done" THEN r5 ELSE
  Done(r5.pos, r3.val)

\* ------------------------------------------------------ types and fields

\* FieldType: a scalar kind, MessageOrEnum(name), Group(fields), Map(k, v)
Scalar(k) == [k |-> k, name |-> <<>>, sub |-> <<>>]

MessageOrEnum(w) == [k |-> "MessageOrEnum", name |-> w, sub |-> <<>>]

Group(fs) == [k |-> "Group", name |-> <<>>, sub |-> fs]

Map(kt, vt) == [k |-> "Map", name |-> <<>>, sub |-> <<kt, vt>>]

\* the literal tags of field_type, in the order alt! tries them
TypeTags ==
  << <<<<"i","n","t","3","2">>, "Int32">>, <<<<"i","n","t","6","4">>, "Int64">>,
     <<<<"u","i","n","t","3","2">>, "Uint32">>, <<<<"u","i","n","t","6","4">>, "Uint64">>,
     <<<<"s","i","n","t","3","2">>, "Sint32">>, <<<<"s","i","n","t","6","4">>, "Sint64">>,
     <<<<"f","i","x","e","d","3","2">>, "Fixed32">>, <<<<"s","f","i","x","e","d","3","2">>, "Sfixed32">>,
     <<<<"f","i","x","e","d","6","4">>, "Fixed64">>, <<<<"s","f","i","x","e","d","6","4">>, "Sfixed64">>,
     <<<<"b","o","o","l">>, "Bool">>, <<<<"s","t","r","i","n","g">>, "String">>,
     <<<<"r","e","f","_","c","o","u","n","t","e","d","_","s","t","r","i","n","g">>, "RefCountedString">>,
     <<<<"b","y","t","e","s">>, "Bytes">>,
     <<<<"r","e","f","_","c","o","u","n","t","e","d","_","b","y","t","e","s">>, "RefCountedBytes">>,
     <<<<"f","l","o","a","t">>, "Float">>, <<<<"d","o","u","b","l","e">>, "Double">>,
     <<<<"g","r","o","u","p">>, "Group">> >>

RECURSIVE type_tag(_, _, _)
\* the tag alternatives of field_type from the k-th on: the first tag that
\* matches wins, whatever follows it in the input
type_tag(s, i, k) ==
  IF k > Len(TypeTags) THEN Error
  ELSE LET r == tag(s, i, TypeTags[k][1])
       IN  IF r.st = "Done" THEN Done(r.pos, Scalar(TypeTags[k][2]))
           ELSE IF r.st # "Error" THEN r
           ELSE type_tag(s, i, k + 1)

RuleTags ==
  << <<<<"o","p","t","i","o","n","a","l">>, "Optional">>, <<<<"r","e","p","e","a","t","e","d">>, "Repeated">>,
     <<<<"r","e","q","u","i","r","e","d">>, "Required">> >>

RECURSIVE rule_tag(_, _, _)
rule_tag(s, i, k) ==
  IF k > Len(RuleTags) THEN Error
  ELSE LET r == tag(s, i, RuleTags[k][1])
       IN  IF r.st = "Done" THEN Done(r.pos, RuleTags[k][2])
           ELSE IF r.st # "Error" THEN r
           ELSE rule_tag(s, i, k + 1)

rule(s, i) == rule_tag(s, i, 1)

\* str::FromStr for bool: "true" or "false", anything else is an Err, on
\* which the expect() of message_field panics
ParseBool(v) ==
  IF v = <<"t","r","u","e">> THEN Some(TRUE)
  ELSE IF v = <<"f","a","l","s","e">> THEN Some(FALSE)
  ELSE NoBool

RECURSIVE TrimStart(_, _)
TrimStart(v, a) ==
  IF a > Len(v) \/ v[a] \notin TrimSpace THEN a ELSE TrimStart(v, a + 1)

RECURSIVE TrimEnd(_, _)
TrimEnd(v, b) ==
  IF b < 1 \/ v[b] \notin TrimSpace THEN b ELSE TrimEnd(v, b - 1)

\* str::trim
Trim(v) == SubSeq(v, TrimStart(v, 1), TrimEnd(v, Len(v)))

\* key_val: one bracket, its key, and as value the run up to the first ']'
key_val(s, i) ==
  LET r1 == tag(s, i, <<"[">>) IN IF r1.st # "Done" THEN r1 ELSE
  LET r2 == Call("Many0Br", s, r1.pos) IN IF r2.st # "Done" THEN r2 ELSE
  LET r3 == Call("word", s, r2.pos) IN
  LET r4 == Call("Many0Br", s, r3.pos) IN IF r4.st # "Done" THEN r4 ELSE
  LET r5 == tag(s, r4.pos, <<"=">>) IN IF r5.st # "Done" THEN r5 ELSE
  LET r6 == Call("Many0Br", s, r5.pos) IN IF r6.st # "Done" THEN r6 ELSE
  LET r7 == is_not(s, r6.pos, {"]"}) IN IF r7.st # "Done" THEN r7 ELSE
  LET r8 == tag(s, r7.pos, <<"]">>) IN IF r8.st # "Done" THEN r8 ELSE
  LET r9 == Call("Many0Br", s, r8.pos) IN IF r9.st # "Done" THEN r9 ELSE
  Done(r9.pos, [key |-> r3.val, value |-> Trim(r7.val)])

RECURSIVE Many0KeyVal(_, _, _)
\* many0!(key_val)
Many0KeyVal(s, i, acc) ==
  IF i > Len(s) THEN Done(i, acc)
  ELSE LET r == Call("key_val", s, i)
       IN  IF r.st = "Error" THEN Done(i, acc)
           ELSE IF r.st # "Done" THEN r
           ELSE IF r.pos = i THEN Error
           ELSE Many0KeyVal(s, r.pos, Append(acc, r.val))

\* key_vals.iter().find(|(k, _)| k == key): the first pair with that key
FindKey(kvs, key) ==
  LET hits == {n \in 1..Len(kvs) : kvs[n].key = key}
  IN  IF hits = {} THEN None
      ELSE Some(kvs[CHOOSE n \in hits : \A m \in hits : n <= m].value)

\* message_field without the rebuilding of the group type: the brace body is
\* dropped and a group keeps its placeholder, the empty list
MakeFieldPlaceholder(rl, typ, group_fields, name, number, kvs) ==
  LET pk == FindKey(kvs, <<"p","a","c","k","e","d">>)
      dp == FindKey(kvs, <<"d","e","p","r","e","c","a","t","e","d">>)
  IN  IF (pk.some /\ ~ParseBool(pk.v).some) \/ (dp.some /\ ~ParseBool(dp.v).some)
      THEN Panic
      ELSE [st |-> "Done", pos |-> 0,
            val |-> [name |-> name,
                     rule |-> IF rl.some THEN rl.v ELSE "Optional",
                     typ |-> typ,
                     number |-> number,
                     default |-> FindKey(kvs, <<"d","e","f","a","u","l","t">>),
                     packed |-> IF pk.some THEN ParseBool(pk.v) ELSE NoBool,
                     deprecated |-> IF dp.some THEN ParseBool(dp.v).v ELSE FALSE]]

\* the Field that message_field builds from its parts, or Panic when a
\* packed or deprecated value is no bool
MakeField(rl, typ, group_fields, name, number, kvs) ==
  LET t == IF typ.k = "Group" /\ group_fields.some
           THEN Group(group_fields.v) ELSE typ
      pk == FindKey(kvs, <<"p","a","c","k","e","d">>)
      dp == FindKey(kvs, <<"d","e","p","r","e","c","a","t","e","d">>)
  IN  IF (pk.some /\ ~ParseBool(pk.v).some) \/ (dp.some /\ ~ParseBool(dp.v).some)
      THEN Panic
      ELSE [st |-> "Done", pos |-> 0,
            val |-> [name |-> name,
                     rule |-> IF rl.some THEN rl.v ELSE "Optional",
                     typ |-> t,
                     number |-> number,
                     default |-> FindKey(kvs, <<"d","e","f","a","u","l","t">>),
                     packed |-> IF pk.some THEN ParseBool(pk.v) ELSE NoBool,
                     deprecated |-> IF dp.some THEN ParseBool(dp.v).v ELSE FALSE]]

RECURSIVE FieldListLoop(_, _, _)

\* field_type: the scalar keywords and group as tags, then map_field, then
\* any word as a MessageOrEnum
field_type(s, i) ==
  LET a == type_tag(s, i, 1)
  IN  IF a.st # "Error" THEN a
      ELSE LET b == Call("map_field", s, i)
           IN  IF b.st # "Error" THEN b
               ELSE LET w == Call("word", s, i) IN Done(w.pos, MessageOrEnum(w.val))

map_field(s, i) ==
  LET r1 == tag(s, i, <<"m","a","p">>) IN IF r1.st # "Done" THEN r1 ELSE
  LET r2 == Call("Many0Br", s, r1.pos) IN IF r2.st # "Done" THEN r2 ELSE
  LET r3 == tag(s, r2.pos, <<"<">>) IN IF r3.st # "Done" THEN r3 ELSE
  LET r4 == Call("Many0Br", s, r3.pos) IN IF r4.st # "Done" THEN r4 ELSE
  LET r5 == Call("field_type", s, r4.pos) IN IF r5.st # "Done" THEN r5 ELSE
  LET r6 == Call("Many0Br", s, r5.pos) IN IF r6.st # "Done" THEN r6 ELSE
  LET r7 == tag(s, r6.pos, <<",">>) IN IF r7.st # "Done" THEN r7 ELSE
  LET r8 == Call("Many0Br", s, r7.pos) IN IF r8.st # "Done" THEN r8 ELSE
  LET r9 == Call("field_type", s, r8.pos) IN IF r9.st # "Done" THEN r9 ELSE
  LET r10 == tag(s, r9.pos, <<">">>) IN IF r10.st # "Done" THEN r10 ELSE
  Done(r10.pos, Map(r5.val, r9.val))

\* the loop of separated_list!(br, message_field): one br, then a field
FieldListLoop(s, i, acc) ==
  LET sep == Call("br", s, i)
  IN  IF sep.st # "Done" \/ sep.pos = i THEN Done(i, acc)
      ELSE LET e == Call("message_field", s, sep.pos)
           IN  IF e.st = "Panic" THEN e
               ELSE IF e.st # "Done" \/ e.pos = sep.pos THEN Done(i, acc)
               ELSE FieldListLoop(s, e.pos, Append(acc, e.val))

\* separated_list!(br, message_field)
FieldList(s, i) ==
  LET e == Call("message_field", s, i)
  IN  IF e.st = "Error" THEN Done(i, <<>>)
      ELSE IF e.st # "Done" THEN e
      ELSE IF e.pos = i THEN Error
      ELSE FieldListLoop(s, e.pos, <<e.val>>)

fields_in_braces(s, i) ==
  LET r1 == tag(s, i, <<"{">>) IN IF r1.st # "Done" THEN r1 ELSE
  LET r2 == Call("Many0Br", s, r1.pos) IN IF r2.st # "Done" THEN r2 ELSE
  LET r3 == Call("FieldList", s, r2.pos) IN IF r3.st # "Done" THEN r3 ELSE
  LET r4 == Call("Many0Br", s, r3.pos) IN IF r4.st # "Done" THEN r4 ELSE
  LET r5 == tag(s, r4.pos, <<"}">>) IN IF r5.st # "Done" THEN r5 ELSE
  Done(r5.pos, r3.val)

\* alt!(tag!(";") => None | fields_in_braces => Some)
group_fields_or_semicolon(s, i) ==
  LET a == tag(s, i, <<";">>)
  IN  IF a.st = "Done" THEN Done(a.pos, None)
      ELSE IF a.st # "Error" THEN a
      ELSE LET b == Call("fields_in_braces", s, i)
           IN  IF b.st # "Done" THEN b ELSE Done(b.pos, Some(b.val))

\* opt!(rule): an Error of rule is no rule, with nothing consumed
opt_rule(s, i) ==
  LET r == Call("rule", s, i)
  IN  IF r.st = "Done" THEN Done(r.pos, Some(r.val))
      ELSE IF r.st = "Error" THEN Done(i, None)
      ELSE r

message_field(s, i) ==
  LET r1 == Call("opt_rule", s, i) IN IF r1.st # "Done" THEN r1 ELSE
  LET r2 == Call("Many0Br", s, r1.pos) IN IF r2.st # "Done" THEN r2 ELSE
  LET r3 == Call("field_type", s, r2.pos) IN IF r3.st # "Done" THEN r3 ELSE
  LET r4 == Call("Many1Br", s, r3.pos) IN IF r4.st # "Done" THEN r4 ELSE
  LET r5 == Call("word", s, r4.pos) IN
  LET r6 == Call("Many0Br", s, r5.pos) IN IF r6.st # "Done" THEN r6 ELSE
  LET r7 == tag(s, r6.pos, <<"=">>) IN IF r7.st # "Done" THEN r7 ELSE
  LET r8 == Call("Many0Br", s, r7.pos) IN IF r8.st # "Done" THEN r8 ELSE
  LET r9 == Call("integer", s, r8.pos) IN IF r9.st # "Done" THEN r9 ELSE
  LET r10 == Call("Many0Br", s, r9.pos) IN IF r10.st # "Done" THEN r10 ELSE
  LET r11 == Many0KeyVal(s, r10.pos, <<>>) IN IF r11.st # "Done" THEN r11 ELSE
  LET r12 == Call("Many0Br", s, r11.pos) IN IF r12.st # "Done" THEN r12 ELSE
  LET r13 == Call("group_fields_or_semicolon", s, r12.pos)
  IN IF r13.st # "Done" THEN r13 ELSE
  LET f == MakeField(r1.val, r3.val, r13.val, r5.val, r9.val, r11.val)
  IN IF f.st # "Done" THEN f ELSE Done(r13.pos, f.val)

\* ------------------------------------------------------------ aggregates

one_of(s, i) ==
  LET r1 == tag(s, i, <<"o","n","e","o","f">>) IN IF r1.st # "Done" THEN r1 ELSE
  LET r2 == Call("Many1Br", s, r1.pos) IN IF r2.st # "Done" THEN r2 ELSE
  LET r3 == Call("word", s, r2.pos) IN
  LET r4 == Call("Many0Br", s, r3.pos) IN IF r4.st # "Done" THEN r4 ELSE
  LET r5 == Call("fields_in_braces", s, r4.pos) IN IF r5.st # "Done" THEN r5 ELSE
  LET r6 == Call("Many0Br", s, r5.pos) IN IF r6.st # "Done" THEN r6 ELSE
  Done(r6.pos, [name |-> r3.val, fields |-> r5.val])

\* alt!(hex_integer | integer)
enum_number(s, i) ==
  LET a == Call("hex_integer", s, i) IN IF a.st # "Error" THEN a ELSE Call("integer", s, i)

enum_value(s, i) ==
  LET r1 == Call("word", s, i) IN
  LET r2 == Call("Many0Br", s, r1.pos) IN IF r2.st # "Done" THEN r2 ELSE
  LET r3 == tag(s, r2.pos, <<"=">>) IN IF r3.st # "Done" THEN r3 ELSE
  LET r4 == Call("Many0Br", s, r3.pos) IN IF r4.st # "Done" THEN r4 ELSE
  LET r5 == Call("enum_number", s, r4.pos) IN IF r5.st # "Done" THEN r5 ELSE
  LET r6 == Call("Many0Br", s, r5.pos) IN IF r6.st # "Done" THEN r6 ELSE
  LET r7 == tag(s, r6.pos, <<";">>) IN IF r7.st # "Done" THEN r7 ELSE
  LET r8 == Call("Many0Br", s, r7.pos) IN IF r8.st # "Done" THEN r8 ELSE
  Done(r8.pos, [name |-> r1.val, number |-> r5.val])

RECURSIVE Many0EnumValue(_, _, _)
\* many0!(enum_value)
Many0EnumValue(s, i, acc) ==
  IF i > Len(s) THEN Done(i, acc)
  ELSE LET r == Call("enum_value", s, i)
       IN  IF r.st = "Error" THEN Done(i, acc)
           ELSE IF r.st # "Done" THEN r
           ELSE IF r.pos = i THEN Error
           ELSE Many0EnumValue(s, r.pos, Append(acc, r.val))

enumerator(s, i) ==
  LET r1 == tag(s, i, <<"e","n","u","m">>) IN IF r1.st # "Done" THEN r1 ELSE
  LET r2 == Call("Many1Br", s, r1.pos) IN IF r2.st # "Done" THEN r2 ELSE
  LET r3 == Call("word", s, r2.pos) IN
  LET r4 == Call("Many0Br", s, r3.pos) IN IF r4.st # "Done" THEN r4 ELSE
  LET r5 == tag(s, r4.pos, <<"{">>) IN IF r5.st # "Done" THEN r5 ELSE
  LET r6 == Call("Many0Br", s, r5.pos) IN IF r6.st # "Done" THEN r6 ELSE
  LET r7 == Many0EnumValue(s, r6.pos, <<>>) IN IF r7.st # "Done" THEN r7 ELSE
  LET r8 == Call("Many0Br", s, r7.pos) IN IF r8.st # "Done" THEN r8 ELSE
  LET r9 == tag(s, r8.pos, <<"}">>) IN IF r9.st # "Done" THEN r9 ELSE
  LET r10 == Call("Many0Br", s, r9.pos) IN IF r10.st # "Done" THEN r10 ELSE
  LET r11 == Call("Many0Semi", s, r10.pos) IN IF r11.st # "Done" THEN r11 ELSE
  Done(r11.pos, [name |-> r3.val, values |-> r7.val])

RECURSIVE Many0MessageEvent(_, _, _)

\* a MessageEvent
Ev(kind, v) == [ev |-> kind, v |-> v]

\* message_event: alt! over the seven alternatives, in this order
message_event(s, i) ==
  LET a == Call("reserved_nums", s, i) IN
  IF a.st = "Done" THEN Done(a.pos, Ev("ReservedNums", a.val))
  ELSE IF a.st # "Error" THEN a ELSE
  LET b == Call("reserved_names", s, i) IN
  IF b.st = "Done" THEN Done(b.pos, Ev("ReservedNames", b.val))
  ELSE IF b.st # "Error" THEN b ELSE
  LET c == Call("message_field", s, i) IN
  IF c.st = "Done" THEN Done(c.pos, Ev("Field", c.val))
  ELSE IF c.st # "Error" THEN c ELSE
  LET d == Call("message", s, i) IN
  IF d.st = "Done" THEN Done(d.pos, Ev("Message", d.val))
  ELSE IF d.st # "Error" THEN d ELSE
  LET e == Call("enumerator", s, i) IN
  IF e.st = "Done" THEN Done(e.pos, Ev("Enumeration", e.val))
  ELSE IF e.st # "Error" THEN e ELSE
  LET f == Call("one_of", s, i) IN
  IF f.st = "Done" THEN Done(f.pos, Ev("OneOf", f.val))
  ELSE IF f.st # "Error" THEN f ELSE
  LET g == Call("br", s, i) IN
  IF g.st = "Done" THEN Done(g.pos, Ev("Ignore", <<>>)) ELSE g

\* many0!(message_event)
Many0MessageEvent(s, i, acc) ==
  IF i > Len(s) THEN Done(i, acc)
  ELSE LET r == Call("message_event", s, i)
       IN  IF r.st = "Error" THEN Done(i, acc)
           ELSE IF r.st # "Done" THEN r
           ELSE IF r.pos = i THEN Error
           ELSE Many0MessageEvent(s, r.pos, Append(acc, r.val))

message_events(s, i) ==
  LET r1 == tag(s, i, <<"m","e","s","s","a","g","e">>) IN IF r1.st # "Done" THEN r1 ELSE
  LET r2 == Call("Many1Br", s, r1.pos) IN IF r2.st # "Done" THEN r2 ELSE
  LET r3 == Call("word", s, r2.pos) IN
  LET r4 == Call("Many0Br", s, r3.pos) IN IF r4.st # "Done" THEN r4 ELSE
  LET r5 == tag(s, r4.pos, <<"{">>) IN IF r5.st # "Done" THEN r5 ELSE
  LET r6 == Call("Many0Br", s, r5.pos) IN IF r6.st # "Done" THEN r6 ELSE
  LET r7 == Many0MessageEvent(s, r6.pos, <<>>)
  IN IF r7.st # "Done" THEN r7 ELSE
  LET r8 == Call("Many0Br", s, r7.pos) IN IF r8.st # "Done" THEN r8 ELSE
  LET r9 == tag(s, r8.pos, <<"}">>) IN IF r9.st # "Done" THEN r9 ELSE
  LET r10 == Call("Many0Br", s, r9.pos) IN IF r10.st # "Done" THEN r10 ELSE
  LET r11 == Call("Many0Semi", s, r10.pos) IN IF r11.st # "Done" THEN r11 ELSE
  Done(r11.pos, [name |-> r3.val, events |-> r7.val])

\* Message::default() with the name set
NewMessage(name) ==
  [name |-> name, fields |-> <<>>, oneofs |-> <<>>, messages |-> <<>>,
   enums |-> <<>>, reserved_nums |-> <<>>, reserved_names |-> <<>>]

\* the fold with a field put in front of the list instead of at its end
MessageFoldPrepend(msg, e) ==
  CASE e.ev = "Field" -> [msg EXCEPT !.fields = <<e.v>> \o @]
    [] e.ev = "ReservedNums" -> [msg EXCEPT !.reserved_nums = e.v]
    [] e.ev = "ReservedNames" -> [msg EXCEPT !.reserved_names = e.v]
    [] e.ev = "Message" -> [msg EXCEPT !.messages = Append(@, e.v)]
    [] e.ev = "Enumeration" -> [msg EXCEPT !.enums = Append(@, e.v)]
    [] e.ev = "OneOf" -> [msg EXCEPT !.oneofs = Append(@, e.v)]
    [] e.ev = "Ignore" -> msg

\* the fold with the members of a oneof merged into the fields of the message
MessageFoldMergeOneOf(msg, e) ==
  CASE e.ev = "Field" -> [msg EXCEPT !.fields = Append(@, e.v)]
    [] e.ev = "ReservedNums" -> [msg EXCEPT !.reserved_nums = e.v]
    [] e.ev = "ReservedNames" -> [msg EXCEPT !.reserved_names = e.v]
    [] e.ev = "Message" -> [msg EXCEPT !.messages = Append(@, e.v)]
    [] e.ev = "Enumeration" -> [msg EXCEPT !.enums = Append(@, e.v)]
    [] e.ev = "OneOf" -> [msg EXCEPT !.oneofs = Append(@, e.v),
                                     !.fields = @ \o e.v.fields]
    [] e.ev = "Ignore" -> msg

\* one turn of the loop of message: fold event e into msg
MessageFold(msg, e) ==
  CASE e.ev = "Field" -> [msg EXCEPT !.fields = Append(@, e.v)]
    [] e.ev = "ReservedNums" -> [msg EXCEPT !.reserved_nums = e.v]
    [] e.ev = "ReservedNames" -> [msg EXCEPT !.reserved_names = e.v]
    [] e.ev = "Message" -> [msg EXCEPT !.messages = Append(@, e.v)]
    [] e.ev = "Enumeration" -> [msg EXCEPT !.enums = Append(@, e.v)]
    [] e.ev = "OneOf" -> [msg EXCEPT !.oneofs = Append(@, e.v)]
    [] e.ev = "Ignore" -> msg

RECURSIVE FoldMessage(_, _, _)
FoldMessage(msg, events, k) ==
  IF k > Len(events) THEN msg
  ELSE FoldMessage(MessageFold(msg, events[k]), events, k + 1)

message(s, i) ==
  LET r == Call("message_events", s, i)
  IN  IF r.st # "Done" THEN r
      ELSE Done(r.pos, FoldMessage(NewMessage(r.val.name), r.val.events, 1))

\* extensions: one Extension per field of the block
extensions(s, i) ==
  LET r1 == tag(s, i, <<"e","x","t","e","n","d">>) IN IF r1.st # "Done" THEN r1 ELSE
  LET r2 == Call("Many1Br", s, r1.pos) IN IF r2.st # "Done" THEN r2 ELSE
  LET r3 == Call("word", s, r2.pos) IN
  LET r4 == Call("Many0Br", s, r3.pos) IN IF r4.st # "Done" THEN r4 ELSE
  LET r5 == Call("fields_in_braces", s, r4.pos) IN IF r5.st # "Done" THEN r5 ELSE
  Done(r5.pos, [n \in 1..Len(r5.val) |->
                  [extendee |-> r3.val, field |-> r5.val[n]]])

option_ignore(s, i) ==
  LET r1 == tag(s, i, <<"o","p","t","i","o","n">>) IN IF r1.st # "Done" THEN r1 ELSE
  LET r2 == Call("Many1Br", s, r1.pos) IN IF r2.st # "Done" THEN r2 ELSE
  LET r3 == take_until_and_consume(s, r2.pos, <<";">>)
  IN IF r3.st # "Done" THEN r3 ELSE Done(r3.pos, <<>>)

service_ignore(s, i) ==
  LET r1 == tag(s, i, <<"s","e","r","v","i","c","e">>) IN IF r1.st # "Done" THEN r1 ELSE
  LET r2 == Call("Many1Br", s, r1.pos) IN IF r2.st # "Done" THEN r2 ELSE
  LET r3 == Call("word", s, r2.pos) IN
  LET r4 == Call("Many0Br", s, r3.pos) IN IF r4.st # "Done" THEN r4 ELSE
  LET r5 == tag(s, r4.pos, <<"{">>) IN IF r5.st # "Done" THEN r5 ELSE
  LET r6 == take_until_and_consume(s, r5.pos, <<"}">>)
  IN IF r6.st # "Done" THEN r6 ELSE Done(r6.pos, <<>>)

\* event: alt! over the nine top-level alternatives, in this order
event(s, i) ==
  LET a == Call("syntax", s, i) IN
  IF a.st = "Done" THEN Done(a.pos, Ev("Syntax", a.val))
  ELSE IF a.st # "Error" THEN a ELSE
  LET b == Call("import", s, i) IN
  IF b.st = "Done" THEN Done(b.pos, Ev("Import", b.val))
  ELSE IF b.st # "Error" THEN b ELSE
  LET c == Call("package", s, i) IN
  IF c.st = "Done" THEN Done(c.pos, Ev("Package", c.val))
  ELSE IF c.st # "Error" THEN c ELSE
  LET d == Call("message", s, i) IN
  IF d.st = "Done" THEN Done(d.pos, Ev("Message", d.val))
  ELSE IF d.st # "Error" THEN d ELSE
  LET e == Call("enumerator", s, i) IN
  IF e.st = "Done" THEN Done(e.pos, Ev("Enum", e.val))
  ELSE IF e.st # "Error" THEN e ELSE
  LET f == Call("extensions", s, i) IN
  IF f.st = "Done" THEN Done(f.pos, Ev("Extensions", f.val))
  ELSE IF f.st # "Error" THEN f ELSE
  LET g == Call("option_ignore", s, i) IN
  IF g.st = "Done" THEN Done(g.pos, Ev("Ignore", <<>>))
  ELSE IF g.st # "Error" THEN g ELSE
  LET h == Call("service_ignore", s, i) IN
  IF h.st = "Done" THEN Done(h.pos, Ev("Ignore", <<>>))
  ELSE IF h.st # "Error" THEN h ELSE
  LET k == Call("br", s, i) IN
  IF k.st = "Done" THEN Done(k.pos, Ev("Ignore", <<>>)) ELSE k

RECURSIVE Many0EventResync(_, _, _)
\* an event loop that recovers: on an Error it skips a byte and goes on
Many0EventResync(s, i, acc) ==
  IF i > Len(s) THEN Done(i, acc)
  ELSE LET r == Call("event", s, i)
       IN  IF r.st = "Error" THEN Many0EventResync(s, i + 1, acc)
           ELSE IF r.st # "Done" THEN r
           ELSE IF r.pos = i THEN Error
           ELSE Many0EventResync(s, r.pos, Append(acc, r.val))

RECURSIVE Many0Event(_, _, _)
\* many0!(event)
Many0Event(s, i, acc) ==
  IF i > Len(s) THEN Done(i, acc)
  ELSE LET r == Call("event", s, i)
       IN  IF r.st = "Error" THEN Done(i, acc)
           ELSE IF r.st # "Done" THEN r
           ELSE IF r.pos = i THEN Error
           ELSE Many0Event(s, r.pos, Append(acc, r.val))

\* FileDescriptor::default()
NewFileDescriptor ==
  [syntax |-> "Proto2", package |-> <<>>, import_paths |-> <<>>,
   messages |-> <<>>, enums |-> <<>>, extensions |-> <<>>]

\* the fold with the extensions of a block assigned instead of appended
FileFoldAssign(desc, e) ==
  CASE e.ev = "Syntax" -> [desc EXCEPT !.syntax = e.v]
    [] e.ev = "Import" -> [desc EXCEPT !.import_paths = Append(@, e.v)]
    [] e.ev = "Package" -> [desc EXCEPT !.package = e.v]
    [] e.ev = "Message" -> [desc EXCEPT !.messages = Append(@, e.v)]
    [] e.ev = "Enum" -> [desc EXCEPT !.enums = Append(@, e.v)]
    [] e.ev = "Extensions" -> [desc EXCEPT !.extensions = e.v]
    [] e.ev = "Ignore" -> desc

\* one turn of the loop of file_descriptor: fold event e into desc
FileFold(desc, e) ==
  CASE e.ev = "Syntax" -> [desc EXCEPT !.syntax = e.v]
    [] e.ev = "Import" -> [desc EXCEPT !.import_paths = Append(@, e.v)]
    [] e.ev = "Package" -> [desc EXCEPT !.package = e.v]
    [] e.ev = "Message" -> [desc EXCEPT !.messages = Append(@, e.v)]
    [] e.ev = "Enum" -> [desc EXCEPT !.enums = Append(@, e.v)]
    [] e.ev = "Extensions" -> [desc EXCEPT !.extensions = @ \o e.v]
    [] e.ev = "Ignore" -> desc

RECURSIVE FoldFile(_, _, _)
FoldFile(desc, events, k) ==
  IF k > Len(events) THEN desc
  ELSE FoldFile(FileFold(desc, events[k]), events, k + 1)

\* file_descriptor: the events the loop consumed, folded; the input left
\* over starts at pos
file_descriptor(s, i) ==
  LET r == Many0Event(s, i, <<>>)
  IN  IF r.st # "Done" THEN r
      ELSE Done(r.pos, FoldFile(NewFileDescriptor, r.val, 1))

\* the parsers by name
Call(p, s, i) ==
  CASE p = "word" -> word(s, i)
    [] p = "integer" -> integer(s, i)
    [] p = "hex_integer" -> hex_integer(s, i)
    [] p = "comment" -> comment(s, i)
    [] p = "block_comment" -> block_comment(s, i)
    [] p = "br" -> br(s, i)
    [] p = "Many0Br" -> Many0Br(s, i)
    [] p = "Many1Br" -> Many1Br(s, i)
    [] p = "Many0Semi" -> Many0Semi(s, i)
    [] p = "syntax" -> syntax(s, i)
    [] p = "import" -> import(s, i)
    [] p = "package" -> package(s, i)
    [] p = "num_range" -> num_range(s, i)
    [] p = "reserved_entry" -> reserved_entry(s, i)
    [] p = "reserved_sep" -> reserved_sep(s, i)
    [] p = "ReservedList" -> ReservedList(s, i)
    [] p = "reserved_nums" -> reserved_nums(s, i)
    [] p = "Many0BrOrComma" -> Many0BrOrComma(s, i)
    [] p = "reserved_name" -> reserved_name(s, i)
    [] p = "reserved_names" -> reserved_names(s, i)
    [] p = "rule" -> rule(s, i)
    [] p = "key_val" -> key_val(s, i)
    [] p = "field_type" -> field_type(s, i)
    [] p = "map_field" -> map_field(s, i)
    [] p = "FieldList" -> FieldList(s, i)
    [] p = "fields_in_braces" -> fields_in_braces(s, i)
    [] p = "group_fields_or_semicolon" -> group_fields_or_semicolon(s, i)
    [] p = "opt_rule" -> opt_rule(s, i)
    [] p = "message_field" -> message_field(s, i)
    [] p = "one_of" -> one_of(s, i)
    [] p = "enum_number" -> enum_number(s, i)
    [] p = "enum_value" -> enum_value(s, i)
    [] p = "enumerator" -> enumerator(s, i)
    [] p = "message_event" -> message_event(s, i)
    [] p = "message_events" -> message_events(s, i)
    [] p = "message" -> message(s, i)
    [] p = "extensions" -> extensions(s, i)
    [] p = "option_ignore" -> option_ignore(s, i)
    [] p = "service_ignore" -> service_ignore(s, i)
    [] p = "event" -> event(s, i)
    [] p = "file_descriptor" -> file_descriptor(s, i)

\* FileDescriptor::parse, the whole-file entry point (its code is not in
\* parser.rs): Ok with the descriptor when file_descriptor consumed the
\* whole input, Err otherwise
FileDescriptorParse(s) ==
  LET r == Call("file_descriptor", s, 1)
  IN  IF r.st = "Panic" THEN [st |-> "Panic", val |-> <<>>]
      ELSE IF r.st = "Done" /\ r.pos > Len(s) THEN [st |-> "Ok", val |-> r.val]
      ELSE [st |-> "Err", val |-> <<>>]

\* ---------------------------------------------------- written declarations
\* The inputs.  A document is a list of declarations as written; Render*
\* turns it into the bytes handed to the parser, and Declared* reads off
\* what the document declares, without parsing.

DigitChar(d) == <<"0","1","2","3","4","5","6","7","8","9">>[d + 1]

RECURSIVE Dec(_)
\* the decimal numeral of n >= 0
Dec(n) ==
  IF n < 10 THEN <<DigitChar(n)>> ELSE Dec(n \div 10) \o <<DigitChar(n % 10)>>

RECURSIVE Flatten(_)
Flatten(ss) == IF ss = <<>> THEN <<>> ELSE Head(ss) \o Flatten(Tail(ss))

RECURSIVE JoinWith(_, _)
\* the texts of ss with sep between each two
JoinWith(ss, sep) ==
  IF ss = <<>> THEN <<>>
  ELSE IF Len(ss) = 1 THEN ss[1]
  ELSE ss[1] \o sep \o JoinWith(Tail(ss), sep)

\* all sequences over S of length at most n
BoundedSeq(S, n) == UNION {[1..m -> S] : m \in 0..n}

\* the name of the declaration numbered n
NameAt(n) == <<"f">> \o Dec(n)

NoBody == [some |-> FALSE, v |-> <<>>, sep |-> <<>>]

Body(members, sep) == [some |-> TRUE, v |-> members, sep |-> sep]

\* a field declaration as written: rule keyword (or none), type token, name,
\* number, attributes (key and value text), how the attributes are listed,
\* and a brace body (or none, for ";")
Decl(rl, tok, n, attrs, astyle, body) ==
  [rule |-> rl, tok |-> tok, name |-> NameAt(n), number |-> n,
   attrs |-> attrs, astyle |-> astyle, body |-> body]

Attr(k, v) == [key |-> k, value |-> v]

RenderAttr(a) == a.key \o <<" ","="," ">> \o a.value

\* "comma": [k1 = v1, k2 = v2]; "brackets": [k1 = v1] [k2 = v2]
RenderAttrs(d) ==
  IF d.attrs = <<>> THEN <<>>
  ELSE IF d.astyle = "comma"
  THEN <<" ","[">> \o JoinWith([n \in 1..Len(d.attrs) |-> RenderAttr(d.attrs[n])], <<","," ">>)
       \o <<"]">>
  ELSE Flatten([n \in 1..Len(d.attrs) |-> <<" ","[">> \o RenderAttr(d.attrs[n]) \o <<"]">>])

RECURSIVE RenderDecl(_)
RECURSIVE RenderBody(_)

\* a brace body: its members with the separator between each two
RenderBody(b) ==
  <<" ","{"," ">> \o JoinWith([n \in 1..Len(b.v) |-> RenderDecl(b.v[n])], b.sep) \o <<" ","}">>

RenderDecl(d) ==
  (IF d.rule = <<>> THEN <<>> ELSE d.rule \o <<" ">>)
  \o d.tok \o <<" ">> \o d.name \o <<" ","="," ">> \o Dec(d.number) \o RenderAttrs(d)
  \o (IF d.body.some THEN RenderBody(d.body) ELSE <<";">>)

\* the rule a declaration states: the keyword written, Optional when none
DeclaredRule(d) ==
  IF d.rule = <<>> THEN "Optional"
  ELSE RuleTags[CHOOSE k \in 1..Len(RuleTags) : RuleTags[k][1] = d.rule][2]

\* the value of the first attribute of d with this key
DeclaredAttr(d, key) ==
  LET hits == {n \in 1..Len(d.attrs) : d.attrs[n].key = key}
  IN  IF hits = {} THEN None
      ELSE Some(d.attrs[CHOOSE n \in hits : \A m \in hits : n <= m].value)

DeclaredBool(d, key) ==
  LET a == DeclaredAttr(d, key)
  IN  IF a.some THEN Some(a.v = <<"t","r","u","e">>) ELSE NoBool

IsKeyword(tok) == \E k \in 1..Len(TypeTags) : TypeTags[k][1] = tok

MapToken == <<"m","a","p","<","s","t","r","i","n","g",","," ","i","n","t","3","2",">">>

RECURSIVE DeclaredField(_)
\* the Field a declaration states: a type token that is exactly a keyword is
\* that scalar (group: with the fields of its body), any other token names a
\* message or enum
DeclaredField(d) ==
  [name |-> d.name,
   rule |-> DeclaredRule(d),
   typ |-> IF d.tok = <<"g","r","o","u","p">>
           THEN Group(IF d.body.some
                      THEN [n \in 1..Len(d.body.v) |-> DeclaredField(d.body.v[n])]
                      ELSE <<>>)
           ELSE IF d.tok = MapToken THEN Map(Scalar("String"), Scalar("Int32"))
           ELSE IF IsKeyword(d.tok)
           THEN Scalar(TypeTags[CHOOSE k \in 1..Len(TypeTags) :
                                  TypeTags[k][1] = d.tok][2])
           ELSE MessageOrEnum(d.tok),
   number |-> d.number,
   default |-> DeclaredAttr(d, <<"d","e","f","a","u","l","t">>),
   packed |-> DeclaredBool(d, <<"p","a","c","k","e","d">>),
   deprecated |-> DeclaredBool(d, <<"d","e","p","r","e","c","a","t","e","d">>).v]

DeclaredFields(ds) == [n \in 1..Len(ds) |-> DeclaredField(ds[n])]

\* ----------------------------------------------------- message documents

\* the breaks written between the items of a message body: none, a blank, a
\* line comment on a line of its own, a block comment
Breaks == {<<>>, <<" ">>, <<"\n"," "," ","/","/"," ","n","o","t","e","\n"," "," ">>, <<" ","/","*"," ","c"," ","*","/"," ">>}

\* the kinds of item of a message body
MsgKinds == {"field", "rfield", "message", "enum", "oneof", "resnums",
             "resnames", "group"}

FieldKinds == {"field", "rfield", "group"}

\* the declaration of a field item of kind k written at position n
ItemDecl(k, n) ==
  CASE k = "field" -> Decl(<<>>, <<"i","n","t","3","2">>, n, <<>>, "comma", NoBody)
    [] k = "rfield" ->
         Decl(<<"r","e","p","e","a","t","e","d">>, <<"F","o","o",".","B","a","r">>, n, <<Attr(<<"d","e","f","a","u","l","t">>, <<"5">>)>>, "comma", NoBody)
    [] k = "group" ->
         Decl(<<"r","e","p","e","a","t","e","d">>, <<"g","r","o","u","p">>, n, <<>>, "comma",
              Body(<<Decl(<<"o","p","t","i","o","n","a","l">>, <<"i","n","t","3","2">>, 19, <<>>, "comma", NoBody)>>, <<" ">>))

\* the item of kind k written at position n
RenderItem(k, n) ==
  CASE k \in FieldKinds -> RenderDecl(ItemDecl(k, n))
    [] k = "message" -> <<"m","e","s","s","a","g","e"," ","B"," ","{"," ","i","n","t","3","2"," ","z"," ","="," ","9",";"," ","}">>
    [] k = "enum" -> <<"e","n","u","m"," ","E"," ","{"," ","A"," ","="," ","0",";"," ","B"," ","="," ","0","x","1","F",";"," ","}">>
    [] k = "oneof" -> <<"o","n","e","o","f"," ","u"," ","{"," ","s","t","r","i","n","g"," ","a","2"," ","="," ","7",";"," ","b","y","t","e","s"," ","a","4"," ","="," ","8",";"," ","}">>
    [] k = "resnums" -> <<"r","e","s","e","r","v","e","d"," ","4",","," ","1","7"," ","t","o"," ","2","0",";">>
    [] k = "resnames" -> <<"r","e","s","e","r","v","e","d"," ","\"","f","o","o","\"",","," ","\"","b","a","r","\"",";">>

MaxItems == 2

\* a message body: up to MaxItems items, each with the break before it
MessageDocs == BoundedSeq(Breaks \X MsgKinds, MaxItems)

RenderMessage(d) ==
  <<"m","e","s","s","a","g","e"," ","A"," ","{">>
  \o Flatten([n \in 1..Len(d) |-> d[n][1] \o RenderItem(d[n][2], n)])
  \o <<"\n","}">>

RECURSIVE DirectFields(_, _)
\* the fields declared directly in the body, from item n on, in order
DirectFields(d, n) ==
  IF n > Len(d) THEN <<>>
  ELSE (IF d[n][2] \in FieldKinds
        THEN <<DeclaredField(ItemDecl(d[n][2], n))>> ELSE <<>>)
       \o DirectFields(d, n + 1)

InitMessage ==
  /\ doc \in MessageDocs
  /\ input = RenderMessage(doc)
  /\ pc = "input"
  /\ out = Error

\* message(input)
ParseMessage ==
  /\ pc = "input"
  /\ out' = Call("message", input, 1)
  /\ pc' = "done"
  /\ UNCHANGED <<doc, input>>

NextMessage == ParseMessage

SpecMessage == InitMessage /\ [][NextMessage]_vars

\* C2: a message body with k field declarations, interleaved in any way
\* with breaks, comments, nested messages, nested enums, oneofs and reserved
\* statements, parses to a Message whose fields are exactly those k
\* declarations, in declaration order.
C2_FieldsInDeclarationOrder ==
  pc = "done" =>
    /\ out.st = "Done"
    /\ out.pos = Len(input) + 1
    /\ out.val.fields = DirectFields(doc, 1)

\* two fields with a comment and a nested declaration between them
C2_Witness ==
  /\ pc = "done"
  /\ out.st = "Done"
  /\ Len(doc) = 2
  /\ doc[1][2] = "rfield" /\ doc[2][2] = "field"
  /\ doc[2][1] = <<"\n"," "," ","/","/"," ","n","o","t","e","\n"," "," ">>
  /\ Len(out.val.fields) = 2
  /\ out.val.fields[1].number = 1 /\ out.val.fields[2].number = 2

\* ------------------------------------------ oneof and group documents

\* a member of a brace body: written without a rule keyword, or with one
MemberKinds == {"plain", "ruled"}

\* what is written between two members of a brace body: nothing, one blank,
\* a line comment on a line of its own
MemberSeps == {<<>>, <<" ">>, <<"\n"," "," ","/","/"," ","n","o","t","e","\n"," "," ">>}

MaxMembers == 2

\* the member of kind k written as number n
MemberDecl(k, n) ==
  IF k = "plain" THEN Decl(<<>>, <<"s","t","r","i","n","g">>, n, <<>>, "comma", NoBody)
  ELSE Decl(<<"r","e","p","e","a","t","e","d">>, <<"i","n","t","3","2">>, n, <<>>, "comma", NoBody)

\* the members of a body whose first member has number base + 1
MemberDecls(ks, base) == [j \in 1..Len(ks) |-> MemberDecl(ks[j], base + j)]

\* a message with one oneof or one group field, members in its body, and
\* possibly a field before it and a field after it
BraceDocs ==
  [kind : {"oneof", "group"}, pre : BOOLEAN, post : BOOLEAN,
   members : BoundedSeq(MemberKinds, MaxMembers), sep : MemberSeps]

PreDecl == Decl(<<"o","p","t","i","o","n","a","l">>, <<"i","n","t","3","2">>, 1, <<>>, "comma", NoBody)

PostDecl == Decl(<<"r","e","q","u","i","r","e","d">>, <<"i","n","t">>, 3, <<>>, "comma", NoBody)

GroupDecl(d) ==
  Decl(<<"r","e","p","e","a","t","e","d">>, <<"g","r","o","u","p">>, 2, <<>>, "comma", Body(MemberDecls(d.members, 10), d.sep))

RenderBraces(d) ==
  <<"m","e","s","s","a","g","e"," ","A"," ","{","\n">>
  \o (IF d.pre THEN RenderDecl(PreDecl) \o <<"\n">> ELSE <<>>)
  \o (IF d.kind = "oneof"
      THEN <<"o","n","e","o","f"," ","u">> \o RenderBody(Body(MemberDecls(d.members, 10), d.sep))
      ELSE RenderDecl(GroupDecl(d)))
  \o (IF d.post THEN <<"\n">> \o RenderDecl(PostDecl) ELSE <<>>)
  \o <<"\n","}">>

\* the fields the message body declares directly
BraceDirectFields(d) ==
  (IF d.pre THEN <<DeclaredField(PreDecl)>> ELSE <<>>)
  \o (IF d.kind = "group" THEN <<DeclaredField(GroupDecl(d))>> ELSE <<>>)
  \o (IF d.post THEN <<DeclaredField(PostDecl)>> ELSE <<>>)

\* the members of the body are separated the way separated_list!(br, ..)
\* with message_field takes them: by one blank, or by any break when the
\* member after it starts with its type
WellSeparated(ks, sep) ==
  \/ Len(ks) <= 1
  \/ sep = <<" ">>
  \/ sep # <<>> /\ \A j \in 2..Len(ks) : ks[j] = "plain"

InitBraces ==
  /\ doc \in BraceDocs
  /\ input = RenderBraces(doc)
  /\ pc = "input"
  /\ out = Error

NextBraces == ParseMessage

SpecBraces == InitBraces /\ [][NextBraces]_vars

C9_NoRuleKeywordInOneOf ==
  (pc = "done" /\ doc.kind = "oneof" /\ out.st = "Done") =>
    \A j \in 1..Len(doc.members) : doc.members[j] = "plain"

\* ----------------------------------------------------- extend documents

Extendees == {<<"g","o","o","g","l","e",".","p","r","o","t","o","b","u","f",".","F","i","l","e","O","p","t","i","o","n","s">>, <<"F","o","o">>}

MaxBlocks == 2

\* an extend block: its extendee, its fields (all of one kind) and what is
\* written between two of them
ExtendBlocks ==
  [extendee : Extendees, kind : MemberKinds, n : 0..MaxMembers,
   sep : MemberSeps \ {<<>>}]

ExtendDocs == BoundedSeq(ExtendBlocks, MaxBlocks)

\* the fields of block b, the k-th block of the file
BlockDecls(b, k) == MemberDecls([j \in 1..b.n |-> b.kind], 10 * k)

RenderBlock(b, k) ==
  <<"e","x","t","e","n","d"," ">> \o b.extendee \o RenderBody(Body(BlockDecls(b, k), b.sep)) \o <<"\n">>

RenderExtends(d) ==
  <<"s","y","n","t","a","x"," ","="," ","\"","p","r","o","t","o","2","\"",";","\n">> \o Flatten([k \in 1..Len(d) |-> RenderBlock(d[k], k)])

RECURSIVE DeclaredExtensions(_, _)
\* the Extension records of the blocks from the k-th on: block order, then
\* field order within the block
DeclaredExtensions(d, k) ==
  IF k > Len(d) THEN <<>>
  ELSE [j \in 1..d[k].n |->
          [extendee |-> d[k].extendee,
           field |-> DeclaredField(BlockDecls(d[k], k)[j])]]
       \o DeclaredExtensions(d, k + 1)

InitExtend ==
  /\ doc \in ExtendDocs
  /\ input = RenderExtends(doc)
  /\ pc = "input"
  /\ out = Error

\* file_descriptor(input)
ParseExtend ==
  /\ pc = "input"
  /\ out' = Call("file_descriptor", input, 1)
  /\ pc' = "done"
  /\ UNCHANGED <<doc, input>>

NextExtend == ParseExtend

SpecExtend == InitExtend /\ [][NextExtend]_vars

TopKinds == {"syntax", "import", "package", "message", "enum", "extend",
             "option", "service"}

\* what matches no top-level alternative: a bare identifier, a stray brace,
\* a cut-off keyword
JunkKinds == {"word", "brace", "cut"}

TopBreaks == {<<>>, <<"\n">>}

RenderTop(k) ==
  CASE k = "syntax" -> <<"s","y","n","t","a","x"," ","="," ","\"","p","r","o","t","o","3","\"",";">>
    [] k = "import" -> <<"i","m","p","o","r","t"," ","\"","x",".","p","r","o","t","o","\"",";">>
    [] k = "package" -> <<"p","a","c","k","a","g","e"," ","f","o","o",".","b","a","r",";">>
    [] k = "message" -> <<"m","e","s","s","a","g","e"," ","F","o","o"," ","{","}">>
    [] k = "enum" -> <<"e","n","u","m"," ","E"," ","{"," ","A"," ","="," ","0",";"," ","}">>
    [] k = "extend" -> <<"e","x","t","e","n","d"," ","F","o","o"," ","{"," ","o","p","t","i","o","n","a","l"," ","b","o","o","l"," ","e"," ","="," ","1",";"," ","}">>
    [] k = "option" -> <<"o","p","t","i","o","n"," ","o","p","t","i","m","i","z","e","_","f","o","r"," ","="," ","S","P","E","E","D",";">>
    [] k = "service" -> <<"s","e","r","v","i","c","e"," ","S"," ","{"," ","r","p","c"," ","a",";"," ","}">>
    [] k = "word" -> <<"d","f","g","d","g">>
    [] k = "brace" -> <<"}">>
    [] k = "cut" -> <<"m","e","s","s">>

MaxTop == 2

FileDocs == BoundedSeq(TopBreaks \X (TopKinds \cup JunkKinds), MaxTop)

RenderFile(d) ==
  Flatten([n \in 1..Len(d) |-> d[n][1] \o RenderTop(d[n][2])]) \o <<"\n">>

HasJunk(d) == \E n \in 1..Len(d) : d[n][2] \in JunkKinds

InitFile ==
  /\ doc \in FileDocs
  /\ input = RenderFile(doc)
  /\ pc = "input"
  /\ out = Error

\* FileDescriptor::parse(input)
ParseFile ==
  /\ pc = "input"
  /\ out' = FileDescriptorParse(input)
  /\ pc' = "done"
  /\ UNCHANGED <<doc, input>>

NextFile == ParseFile

SpecFile == InitFile /\ [][NextFile]_vars

\* C1: a file in which the event loop meets bytes that match no top-level
\* alternative does not parse: the result is a failure and carries no
\* descriptor, whatever was consumed before; a file of top-level statements
\* only does parse.
C1_AllOrNothing ==
  pc = "done" =>
    /\ HasJunk(doc) => (out.st = "Err" /\ out.val = <<>>)
    /\ ~HasJunk(doc) => out.st = "Ok"

\* a message, then a bare identifier: the loop consumed the message and
\* stopped before the end of the input
C1_Witness ==
  /\ pc = "done"
  /\ Len(doc) = 2
  /\ doc[1][2] = "message" /\ doc[2][2] = "word"
  /\ Call("file_descriptor", input, 1).st = "Done"
  /\ Call("file_descriptor", input, 1).pos <= Len(input)
  /\ Len(Call("file_descriptor", input, 1).val.messages) = 1
  /\ out.st = "Err"

\* --------------------------------------------------- reserved documents

\* the numbers written in reserved statements, up to i32::MAX
ReservedNumbers == {0, 17, I32Max - 1, I32Max}

\* an entry of the list: a single number, or a range "a to b"
ReservedEntries ==
  [a : ReservedNumbers, b : ReservedNumbers, range : BOOLEAN]

\* what is written between two entries
EntrySeps == {<<",">>, <<","," ">>, <<" ",","," ">>}

MaxEntries == 2

ReservedDocs ==
  [entries : BoundedSeq(ReservedEntries, MaxEntries), sep : EntrySeps]

RenderEntry(e) ==
  IF e.range THEN Dec(e.a) \o <<" ","t","o"," ">> \o Dec(e.b) ELSE Dec(e.a)

RenderReserved(d) ==
  <<"r","e","s","e","r","v","e","d"," ">>
  \o JoinWith([n \in 1..Len(d.entries) |-> RenderEntry(d.entries[n])], d.sep)
  \o <<";">>

\* the half-open range an entry states: [a, a+1) or [a, b+1), the +1
\* stopping at i32::MAX
DeclaredRange(e) ==
  LET last == IF e.range THEN e.b ELSE e.a
  IN  Range(e.a, IF last < I32Max THEN last + 1 ELSE I32Max)

InitReserved ==
  /\ doc \in ReservedDocs
  /\ input = RenderReserved(doc)
  /\ pc = "input"
  /\ out = Error

\* reserved_nums(input)
ParseReserved ==
  /\ pc = "input"
  /\ out' = Call("reserved_nums", input, 1)
  /\ pc' = "done"
  /\ UNCHANGED <<doc, input>>

NextReserved == ParseReserved

SpecReserved == InitReserved /\ [][NextReserved]_vars

\* C3: a reserved statement of numbers parses to one range per entry, in
\* the order written: [n, n+1) for a single n and [a, b+1) for "a to b",
\* the +1 saturating at i32::MAX.
C3_ReservedRanges ==
  pc = "done" =>
    /\ out.st = "Done"
    /\ out.pos = Len(input) + 1
    /\ out.val = [n \in 1..Len(doc.entries) |-> DeclaredRange(doc.entries[n])]

\* a single i32::MAX and a range that ends below it
C3_Witness ==
  /\ pc = "done"
  /\ Len(doc.entries) = 2
  /\ ~doc.entries[1].range /\ doc.entries[1].a = I32Max
  /\ doc.entries[2].range /\ doc.entries[2].a = 17 /\ doc.entries[2].b = I32Max - 1
  /\ out.st = "Done"
  /\ out.val = <<Range(I32Max, I32Max), Range(17, I32Max)>>

\* ------------------------------------------------------ field documents

\* type tokens: a scalar keyword, a dotted user type, user types that start
\* with a keyword, group, a map, a user type that is the start of a keyword
TypeTokens == {<<"i","n","t","3","2">>, <<"F","o","o",".","B","a","r">>, <<"s","t","r","i","n","g","L","i","s","t">>, <<"r","e","p","e","a","t","e","d","T","h","i","n","g">>,
               <<"g","r","o","u","p">>, MapToken, <<"i","n","t">>}

\* attributes: an integer default, a string default with quotes and escapes,
\* a string default with brackets in it, and three other keys
AttrKinds == {Attr(<<"d","e","f","a","u","l","t">>, <<"1","7">>),
              Attr(<<"d","e","f","a","u","l","t">>, <<"\"","a","b","\\","n","c"," ","d","\\","\"","z","\"">>),
              Attr(<<"d","e","f","a","u","l","t">>, <<"\"","a","]"," ","[","b"," ","="," ","c","\"">>),
              Attr(<<"c","t","y","p","e">>, <<"C","O","R","D">>),
              Attr(<<"p","a","c","k","e","d">>, <<"t","r","u","e">>),
              Attr(<<"d","e","p","r","e","c","a","t","e","d">>, <<"t","r","u","e">>)}

MaxAttrs == 2

FieldDocs ==
  [rule : {<<>>, <<"o","p","t","i","o","n","a","l">>}, tok : TypeTokens, name : {NameAt(1)},
   number : {1}, attrs : BoundedSeq(AttrKinds, MaxAttrs),
   astyle : {"comma", "brackets"},
   body : {NoBody, Body(<<MemberDecl("plain", 11)>>, <<" ">>)}]

InitField ==
  /\ doc \in FieldDocs
  /\ input = RenderDecl(doc)
  /\ pc = "input"
  /\ out = Error

\* message_field(input)
ParseField ==
  /\ pc = "input"
  /\ out' = Call("message_field", input, 1)
  /\ pc' = "done"
  /\ UNCHANGED <<doc, input>>

NextField == ParseField

SpecField == InitField /\ [][NextField]_vars

HasDefault(d) == \E n \in 1..Len(d.attrs) : d.attrs[n].key = <<"d","e","f","a","u","l","t">>

\* the value text of the first default attribute of d as written: from its
\* "=" to the closing "]" of the attribute list it stands in
WrittenDefault(d) ==
  LET j == CHOOSE n \in 1..Len(d.attrs) :
             /\ d.attrs[n].key = <<"d","e","f","a","u","l","t">>
             /\ \A m \in 1..(n - 1) : d.attrs[m].key # <<"d","e","f","a","u","l","t">>
  IN  IF d.astyle = "brackets" THEN d.attrs[j].value
      ELSE JoinWith([n \in 1..(Len(d.attrs) - j + 1) |->
                       IF n = 1 THEN d.attrs[j].value
                       ELSE RenderAttr(d.attrs[j + n - 1])], <<","," ">>)

\* C7 as stated: the default of a parsed Field is the value text of the
\* default attribute of its declaration, as written up to the closing "]" of
\* the attribute list, quotes and escapes included; a declaration without a
\* default attribute gives a Field without default.
C7_DefaultTextVerbatim ==
  (pc = "done" /\ out.st = "Done") =>
    out.val.default =
      IF HasDefault(doc) THEN Some(WrittenDefault(doc)) ELSE None

IsUserToken(tok) == tok # MapToken /\ ~IsKeyword(tok)

\* C8 as stated: a field whose type token is not exactly a scalar keyword,
\* group or a map parses with type MessageOrEnum(token), the token whole,
\* with or without a rule keyword before it.
C8_UserTypeVerbatim ==
  (pc = "done" /\ IsUserToken(doc.tok) /\ doc.attrs = <<>> /\ ~doc.body.some) =>
    /\ out.st = "Done"
    /\ out.val.typ = MessageOrEnum(doc.tok)

PlainValues(d) ==
  \A n \in 1..Len(d.attrs) : \A k \in 1..Len(d.attrs[n].value) :
    d.attrs[n].value[k] # "]"

\* C11 as stated: an attribute list [k1 = v1, k2 = v2, ...] gives one pair
\* (key, trimmed value text) per comma-separated entry, so the Field takes
\* default, packed and deprecated each from the first entry written with
\* that key.
C11_PairPerEntry ==
  (pc = "done" /\ doc.astyle = "comma" /\ doc.attrs # <<>> /\ PlainValues(doc)
     /\ doc.tok \in {<<"i","n","t","3","2">>, <<"F","o","o",".","B","a","r">>} /\ ~doc.body.some) =>
    /\ out.st = "Done"
    /\ out.val.default = DeclaredAttr(doc, <<"d","e","f","a","u","l","t">>)
    /\ out.val.packed = DeclaredBool(doc, <<"p","a","c","k","e","d">>)
    /\ out.val.deprecated = DeclaredBool(doc, <<"d","e","p","r","e","c","a","t","e","d">>).v
====
